---- MODULE Spec2Model ----
(***************************************************************************)
(* The 8-puzzle solver of src/8-Puzzle.py (src/8-Puzzle-words.py is the    *)
(* same engine with colour names at the input/output boundary): the grid   *)
(* helpers, the parity pre-check, the A* loop over a heapq frontier, the   *)
(* path reconstruction and the driver main().                              *)
(*                                                                         *)
(* A configuration is the Python list of three rows, modelled as a         *)
(* function [0..2 -> [0..2 -> 0..8]] so that the source's 0-based indices  *)
(* are kept.  PuzzleNode objects live in the arena `nodes`, in creation    *)
(* order; a reference to a node is its index in the arena and the Python   *)
(* None is the value None below.                                           *)
(***************************************************************************)
EXTENDS Integers, Sequences, FiniteSets, TLC

VARIABLES
    pc,             \* position of the running call: which statement comes next
    entry,          \* "main": the script's main(); "search": AStarSearch.search called directly
    initial_state,  \* main's initial_state / search's start_initial_state
    goal_state,     \* main's goal_state / search's target_goal_state
    nodes,          \* every PuzzleNode constructed so far, in construction order
    rows,           \* every row list object allocated so far: its present content
    state_rows,     \* for each node of `nodes`, the three row objects of its state
    current_node,   \* search's current_node (None before the first heappop)
    frontier,       \* search's frontier: the heapq list, as node references
    explored,       \* search's explored set
    visited_states, \* search's visited_states set
    solution_node,  \* what search returned (a node reference or None)
    outcome,        \* the messages main has printed, in order
    path,           \* print_solution's path (node references, root first)
    move_sequence,  \* print_solution's move_sequence
    calls           \* the functions main has called so far

vars == <<pc, entry, initial_state, goal_state, nodes, rows, state_rows, current_node,
          frontier, explored, visited_states, solution_node, outcome, path,
          move_sequence, calls>>

None == -1

(***************************************************************************)
(* Bounds of the model.                                                    *)
(***************************************************************************)
\* goals are drawn within this many slides of the initial configuration
MaxSlides == 7
\* the search loop is followed for at most this many expansions
MaxExpand == 20
\* length of the slide chains of WalkSpec
MaxWalk == 6

(***************************************************************************)
(* Grids.                                                                  *)
(***************************************************************************)
Grid(r0, r1, r2) ==
    [i \in 0..2 |-> [j \in 0..2 |-> (IF i = 0 THEN r0 ELSE IF i = 1 THEN r1 ELSE r2)[j + 1]]]

\* the row-major reading of a grid, as get_user_input receives it
Flat(state) == [k \in 1..9 |-> state[(k - 1) \div 3][(k - 1) % 3]]

\* get_user_input's acceptance test: all of 0..8, no repetition
IsConfiguration(state) ==
    /\ DOMAIN state = 0..2
    /\ \A i \in 0..2 : DOMAIN state[i] = 0..2
    /\ {state[i][j] : i \in 0..2, j \in 0..2} = 0..8

Abs(x) == IF x < 0 THEN -x ELSE x

\* find_position: first (row, col) in row-major order holding value, else None
RECURSIVE find_from(_, _, _)
find_from(state, value, k) ==
    IF k > 8 THEN None
    ELSE IF state[k \div 3][k % 3] = value THEN <<k \div 3, k % 3>>
    ELSE find_from(state, value, k + 1)

find_position(state, value) == find_from(state, value, 0)

\* the double loop with the goal row and column exchanged
RECURSIVE manhattan_row_col_swapped(_, _, _)
manhattan_row_col_swapped(state, goal_positions, k) ==
    IF k > 8 THEN 0
    ELSE LET i == k \div 3
             j == k % 3
             rest == manhattan_row_col_swapped(state, goal_positions, k + 1)
         IN  IF state[i][j] # 0
             THEN Abs(i - goal_positions[state[i][j]][2])
                  + Abs(j - goal_positions[state[i][j]][1]) + rest
             ELSE rest

\* calculate_manhattan_distance: the double loop, cells in row-major order
RECURSIVE manhattan_from(_, _, _)
manhattan_from(state, goal_positions, k) ==
    IF k > 8 THEN 0
    ELSE LET i == k \div 3
             j == k % 3
             rest == manhattan_from(state, goal_positions, k + 1)
         IN  IF state[i][j] # 0
             THEN Abs(i - goal_positions[state[i][j]][1])
                  + Abs(j - goal_positions[state[i][j]][2]) + rest
             ELSE rest

\* the distance with the blank counted like a tile
manhattan_with_blank(state, target_goal_state) ==
    LET goal_positions == [value \in 1..8 |-> find_position(target_goal_state, value)]
        zero_pos == find_position(state, 0)
        zero_goal == find_position(target_goal_state, 0)
    IN  manhattan_from(state, goal_positions, 0)
        + Abs(zero_pos[1] - zero_goal[1]) + Abs(zero_pos[2] - zero_goal[2])

calculate_manhattan_distance(state, target_goal_state) ==
    LET goal_positions == [value \in 1..8 |-> find_position(target_goal_state, value)]
    IN  manhattan_from(state, goal_positions, 0)

\* the inversion count taken over all nine cells, the blank included
is_solvable_with_blank(puzzle) ==
    LET flattened_puzzle == Flat(puzzle)
        inversions == Cardinality({p \in (1..Len(flattened_puzzle)) \X (1..Len(flattened_puzzle)) :
                                     /\ p[1] < p[2]
                                     /\ flattened_puzzle[p[1]] > flattened_puzzle[p[2]]})
    IN  inversions % 2 = 0

\* is_solvable: inversions among the non-blank tiles in row-major order
is_solvable(puzzle) ==
    LET flattened_puzzle == SelectSeq(Flat(puzzle), LAMBDA num : num # 0)
        inversions == Cardinality({p \in (1..Len(flattened_puzzle)) \X (1..Len(flattened_puzzle)) :
                                     /\ p[1] < p[2]
                                     /\ flattened_puzzle[p[1]] > flattened_puzzle[p[2]]})
    IN  inversions % 2 = 0

(***************************************************************************)
(* PuzzleNode.                                                             *)
(***************************************************************************)
\* a constructor whose total_cost leaves the heuristic out
PuzzleNode_total_without_heuristic(current_state, target_state, parent, action, cost) ==
    LET heuristic == calculate_manhattan_distance(current_state, target_state)
    IN  [state |-> current_state, goal_state |-> target_state, parent |-> parent,
         action |-> action, cost |-> cost, heuristic |-> heuristic,
         total_cost |-> cost]

\* PuzzleNode.__init__
PuzzleNode(current_state, target_state, parent, action, cost) ==
    LET heuristic == calculate_manhattan_distance(current_state, target_state)
    IN  [state |-> current_state, goal_state |-> target_state, parent |-> parent,
         action |-> action, cost |-> cost, heuristic |-> heuristic,
         total_cost |-> cost + heuristic]

\* a comparison that also holds between equal total costs
lt_or_equal(self, other) == self.total_cost <= other.total_cost

\* a best-first ordering on the heuristic alone
lt_heuristic_only(self, other) == self.heuristic < other.heuristic

\* PuzzleNode.__lt__
lt(self, other) == self.total_cost < other.total_cost

\* the direction list with a diagonal step in place of the step down
directions_with_diagonal == << <<0, 1>>, <<1, 1>>, <<0, -1>>, <<-1, 0>> >>

\* get_neighbors' directions
directions == << <<0, 1>>, <<1, 0>>, <<0, -1>>, <<-1, 0>> >>

\* the body of get_neighbors' loop for one direction: the swapped copy
swap_blank(state, zero_pos, new_pos) ==
    [i \in 0..2 |-> [j \in 0..2 |->
        IF <<i, j>> = zero_pos THEN state[new_pos[1]][new_pos[2]]
        ELSE IF <<i, j>> = new_pos THEN state[zero_pos[1]][zero_pos[2]]
        ELSE state[i][j]]]

\* get_neighbors' loop over directions d.. : for each in-bounds new_pos, the
\* swapped copy new_state and the tile self.state[new_pos] that moved
RECURSIVE moves_from(_, _, _)
moves_from(state, zero_pos, d) ==
    IF d > Len(directions) THEN << >>
    ELSE LET new_pos == <<zero_pos[1] + directions[d][1], zero_pos[2] + directions[d][2]>>
             rest == moves_from(state, zero_pos, d + 1)
         IN  IF 0 <= new_pos[1] /\ new_pos[1] < 3 /\ 0 <= new_pos[2] /\ new_pos[2] < 3
             THEN <<[new_state |-> swap_blank(state, zero_pos, new_pos),
                     tile |-> state[new_pos[1]][new_pos[2]]]>> \o rest
             ELSE rest

\* children whose action is read at new_pos from the copy after the swap
get_neighbors_action_after_swap(self, ref) ==
    LET moves == moves_from(self.state, find_position(self.state, 0), 1)
        new_pos(k) == find_position(moves[k].new_state, 0)
    IN  [k \in 1..Len(moves) |->
            PuzzleNode(moves[k].new_state, self.goal_state, ref,
                       moves[k].new_state[new_pos(k)[1]][new_pos(k)[2]], self.cost + 1)]

\* children built with the parent's cost, the + 1 left out
get_neighbors_cost_not_incremented(self, ref) ==
    LET moves == moves_from(self.state, find_position(self.state, 0), 1)
    IN  [k \in 1..Len(moves) |->
            PuzzleNode(moves[k].new_state, self.goal_state, ref, moves[k].tile, self.cost)]

\* PuzzleNode.get_neighbors of the node `self` whose reference is `ref`:
\* the children in the order of `directions`
get_neighbors(self, ref) ==
    LET moves == moves_from(self.state, find_position(self.state, 0), 1)
    IN  [k \in 1..Len(moves) |->
            PuzzleNode(moves[k].new_state, self.goal_state, ref, moves[k].tile, self.cost + 1)]

(***************************************************************************)
(* The list objects behind the configurations.  A configuration is a list  *)
(* of three row lists; a row list is an object of `rows`, named by its     *)
(* index, and a configuration is named by the triple of its rows (the      *)
(* outer list is never assigned to, only its rows are).  main holds the    *)
(* rows of initial_state and of goal_state; the root node's state is the   *)
(* caller's initial_state object itself and every node's goal_state is the *)
(* caller's goal_state object.                                             *)
(***************************************************************************)
\* the row objects get_user_input built for initial_state and for goal_state
initial_rows == <<1, 2, 3>>
goal_rows == <<4, 5, 6>>

input_rows(initial, goal) ==
    <<initial[0], initial[1], initial[2], goal[0], goal[1], goal[2]>>

\* the configuration read through the row objects refs, as state[i][j] reads it
grid_of(store, refs) == [i \in 0..2 |-> store[refs[i + 1]]]

\* new_state = self.state[:] : a new outer list over the same row objects
copy_rows_shared(store, refs) == [rows |-> store, refs |-> refs]

\* new_state = [row[:] for row in self.state] : three new row objects
copy_rows(store, refs) ==
    [rows |-> store \o <<store[refs[1]], store[refs[2]], store[refs[3]]>>,
     refs |-> <<Len(store) + 1, Len(store) + 2, Len(store) + 3>>]

\* new_state[zero_pos] , new_state[new_pos] = new_state[new_pos], new_state[zero_pos] :
\* both right-hand values are read, then the two cells are stored left to right
swap_cells(store, refs, zero_pos, new_pos) ==
    LET at_new == store[refs[new_pos[1] + 1]][new_pos[2]]
        at_zero == store[refs[zero_pos[1] + 1]][zero_pos[2]]
        first == [store EXCEPT ![refs[zero_pos[1] + 1]][zero_pos[2]] = at_new]
    IN  [first EXCEPT ![refs[new_pos[1] + 1]][new_pos[2]] = at_zero]

\* get_neighbors' loop over directions d.. on the row objects: the store after
\* the copies and swaps, and the row triples of the new_state lists
RECURSIVE neighbor_rows_from(_, _, _, _)
neighbor_rows_from(store, refs, zero_pos, d) ==
    IF d > Len(directions) THEN [rows |-> store, states |-> << >>]
    ELSE LET new_pos == <<zero_pos[1] + directions[d][1], zero_pos[2] + directions[d][2]>>
         IN  IF 0 <= new_pos[1] /\ new_pos[1] < 3 /\ 0 <= new_pos[2] /\ new_pos[2] < 3
             THEN LET copy == copy_rows(store, refs)
                      swapped == swap_cells(copy.rows, copy.refs, zero_pos, new_pos)
                      rest == neighbor_rows_from(swapped, refs, zero_pos, d + 1)
                  IN  [rows |-> rest.rows, states |-> <<copy.refs>> \o rest.states]
             ELSE neighbor_rows_from(store, refs, zero_pos, d + 1)

\* get_neighbors on the node whose state has the row objects refs
neighbor_rows(store, refs) ==
    neighbor_rows_from(store, refs, find_position(grid_of(store, refs), 0), 1)

(***************************************************************************)
(* heapq, as the frontier uses it.  Positions are the 0-based positions of *)
(* the Python list; the item at position p is heap[p + 1].  Items are node *)
(* references, compared with PuzzleNode.__lt__ through the arena ns.       *)
(* Each loop is a recursion whose next iteration is entered through        *)
(* CHOOSE result \in {loop(v) : v \in {value}} : TRUE, which is loop(value)*)
(* with the value of the loop variable computed once.                      *)
(***************************************************************************)
\* heapq._siftdown(heap, startpos, pos), newitem being the item taken from pos
RECURSIVE siftdown(_, _, _, _, _)
siftdown(heap, ns, startpos, pos, newitem) ==
    IF pos > startpos
    THEN LET parentpos == (pos - 1) \div 2
             parent == heap[parentpos + 1]
         IN  IF lt(ns[newitem], ns[parent])
             THEN CHOOSE result \in
                      {siftdown(moved, ns, startpos, p, newitem) :
                          moved \in {[heap EXCEPT ![pos + 1] = parent]},
                          p \in {parentpos}} : TRUE
             ELSE [heap EXCEPT ![pos + 1] = newitem]
    ELSE [heap EXCEPT ![pos + 1] = newitem]

\* heapq._siftup(heap, pos): bubble the smaller child up to a leaf, then sift newitem down
RECURSIVE siftup(_, _, _, _, _)
siftup(heap, ns, startpos, pos, newitem) ==
    LET endpos == Len(heap)
        childpos == 2 * pos + 1
        rightpos == childpos + 1
    IN  IF childpos < endpos
        THEN CHOOSE result \in
                 {siftup([heap EXCEPT ![pos + 1] = heap[c + 1]], ns, startpos, c, newitem) :
                     c \in {IF rightpos < endpos
                               /\ ~lt(ns[heap[childpos + 1]], ns[heap[rightpos + 1]])
                            THEN rightpos ELSE childpos}} : TRUE
        ELSE siftdown(heap, ns, startpos, pos, newitem)

\* list.append(item): the item put at the end, nothing sifted
heappush_append(heap, ns, item) == Append(heap, item)

\* heapq.heappush(heap, item)
heappush(heap, ns, item) ==
    siftdown(Append(heap, item), ns, 0, Len(heap), item)

\* list.pop(): the last item of the list, nothing sifted
heappop_from_end(heap, ns) ==
    [item |-> heap[Len(heap)], heap |-> SubSeq(heap, 1, Len(heap) - 1)]

\* heapq.heappop(heap): the item returned and the heap left
heappop(heap, ns) ==
    LET lastelt == heap[Len(heap)]
        popped == SubSeq(heap, 1, Len(heap) - 1)
    IN  IF popped # << >>
        THEN [item |-> heap[1], heap |-> siftup(popped, ns, 0, 0, lastelt)]
        ELSE [item |-> lastelt, heap |-> popped]

(***************************************************************************)
(* AStarSearch.search.                                                     *)
(***************************************************************************)
\* a visited test that never finds anything
never_visited(tup, visited) == FALSE

\* the test of `if state_tuple not in visited_states`, before its negation
already_visited(tup, visited) == tup \in visited

\* tuple(map(tuple, state)): the hashable form kept in explored and visited_states
state_tuple(state) ==
    << <<state[0][0], state[0][1], state[0][2]>>,
       <<state[1][0], state[1][1], state[1][2]>>,
       <<state[2][0], state[2][1], state[2][2]>> >>

\* a for loop that pushes every neighbor, explored or not
RECURSIVE push_neighbors_unfiltered(_, _, _, _, _, _)
push_neighbors_unfiltered(heap, ns, kids, base, expl, k) ==
    IF k > Len(kids) THEN heap
    ELSE CHOOSE result \in
             {push_neighbors_unfiltered(pushed, ns, kids, base, expl, k + 1) :
                 pushed \in {heappush(heap, ns, base + k)}} : TRUE

\* a for loop that leaves out the first neighbor
RECURSIVE push_neighbors_skip_first(_, _, _, _, _, _)
push_neighbors_skip_first(heap, ns, kids, base, expl, k) ==
    IF k > Len(kids) THEN heap
    ELSE CHOOSE result \in
             {push_neighbors_skip_first(pushed, ns, kids, base, expl, k + 1) :
                 pushed \in {IF k > 1 /\ state_tuple(kids[k].state) \notin expl
                             THEN heappush(heap, ns, base + k)
                             ELSE heap}} : TRUE

\* the for loop over get_neighbors(): children k.. of `kids` have the references
\* base + k; each one whose tuple is not in explored is pushed.  (`pushed` is the
\* frontier after the k-th child; binding it lets TLC evaluate it once.)
RECURSIVE push_neighbors(_, _, _, _, _, _)
push_neighbors(heap, ns, kids, base, expl, k) ==
    IF k > Len(kids) THEN heap
    ELSE CHOOSE result \in
             {push_neighbors(pushed, ns, kids, base, expl, k + 1) :
                 pushed \in {IF state_tuple(kids[k].state) \notin expl
                             THEN heappush(heap, ns, base + k)
                             ELSE heap}} : TRUE

\* print_solution's while loop: the nodes from `ref` to the root
RECURSIVE parent_chain(_, _)
parent_chain(ns, ref) ==
    IF ref = None THEN << >>
    ELSE <<ref>> \o parent_chain(ns, ns[ref].parent)

\* list.reverse()
RECURSIVE reverse(_)
reverse(s) == IF s = << >> THEN << >> ELSE Append(reverse(Tail(s)), Head(s))

\* print_solution's move_sequence before the reverse: actions that are not None
RECURSIVE chain_moves(_, _)
chain_moves(ns, chain) ==
    IF chain = << >> THEN << >>
    ELSE (IF ns[Head(chain)].action # None THEN <<ns[Head(chain)].action>> ELSE << >>)
         \o chain_moves(ns, Tail(chain))

(***************************************************************************)
(* The inputs.  get_user_input hands main two configurations; the model    *)
(* draws the initial one from Starts and the goal from the configurations  *)
(* within MaxSlides slides of it and from FixedGoals.                      *)
(***************************************************************************)
Canonical == Grid(<<1, 2, 3>>, <<4, 5, 6>>, <<7, 8, 0>>)
\* Canonical with tiles 7 and 8 exchanged: one inversion
Swapped == Grid(<<1, 2, 3>>, <<4, 5, 6>>, <<8, 7, 0>>)

Starts ==
    { Canonical,
      Swapped,
      Grid(<<1, 2, 3>>, <<4, 0, 5>>, <<7, 8, 6>>),
      Grid(<<2, 1, 3>>, <<4, 5, 6>>, <<7, 0, 8>>),
      Grid(<<8, 1, 3>>, <<4, 0, 2>>, <<7, 6, 5>>) }

FixedGoals == {Canonical, Swapped}

\* the configurations one legal slide away from c
Slides(c) ==
    LET moves == moves_from(c, find_position(c, 0), 1)
    IN  {moves[k].new_state : k \in 1..Len(moves)}

\* the configurations at most d slides away from those of S
RECURSIVE ReachSet(_, _)
ReachSet(S, d) ==
    IF d = 0 THEN S ELSE ReachSet(S \cup UNION {Slides(c) : c \in S}, d - 1)

(***************************************************************************)
(* The driver main() and the search, one action per statement group.       *)
(***************************************************************************)
Init ==
    /\ entry \in {"main", "search"}
    /\ initial_state \in Starts
    /\ goal_state \in ReachSet({initial_state}, MaxSlides) \cup FixedGoals
    /\ pc = IF entry = "main" THEN "main_compare" ELSE "search_init"
    /\ nodes = << >>
    /\ rows = input_rows(initial_state, goal_state)
    /\ state_rows = << >>
    /\ current_node = None
    /\ frontier = << >>
    /\ explored = {}
    /\ visited_states = {}
    /\ solution_node = None
    /\ outcome = << >>
    /\ path = << >>
    /\ move_sequence = << >>
    /\ calls = {}

\* a driver that goes on to the solvability test whatever the comparison says
MainCompare_no_shortcut ==
    /\ pc = "main_compare"
    /\ pc' = "main_solvable"
    /\ UNCHANGED <<entry, initial_state, goal_state, nodes, rows, state_rows,
                   current_node, frontier, explored, visited_states, solution_node,
                   outcome, path, move_sequence, calls>>

\* main: if initial_state == goal_state
MainCompare ==
    /\ pc = "main_compare"
    /\ IF initial_state = goal_state
       THEN /\ outcome' = Append(outcome, "already_solved")
            /\ pc' = "done"
       ELSE /\ outcome' = outcome
            /\ pc' = "main_solvable"
    /\ UNCHANGED <<entry, initial_state, goal_state, nodes, rows, state_rows,
                   current_node, frontier, explored, visited_states, solution_node,
                   path, move_sequence, calls>>

\* main: if is_solvable(initial_state)
MainIsSolvable ==
    /\ pc = "main_solvable"
    /\ calls' = calls \cup {"is_solvable"}
    /\ IF is_solvable(initial_state)
       THEN /\ outcome' = outcome
            /\ pc' = "search_init"
       ELSE /\ outcome' = Append(outcome, "not_solvable")
            /\ pc' = "done"
    /\ UNCHANGED <<entry, initial_state, goal_state, nodes, rows, state_rows,
                   current_node, frontier, explored, visited_states, solution_node,
                   path, move_sequence>>

\* search: the four statements before the while loop
SearchInit ==
    /\ pc = "search_init"
    /\ calls' = calls \cup {"search"}
    /\ nodes' = <<PuzzleNode(initial_state, goal_state, None, None, 0)>>
    /\ state_rows' = <<initial_rows>>
    /\ frontier' = <<1>>
    /\ explored' = {}
    /\ visited_states' = {}
    /\ pc' = "search_loop"
    /\ UNCHANGED <<entry, initial_state, goal_state, rows, current_node, solution_node,
                   outcome, path, move_sequence>>

\* where control goes when search returns
AfterSearch == IF entry = "main" THEN "main_report" ELSE "done"

\* search: one test of `while frontier:` and, when it passes, one iteration of the
\* body; when it fails, `return None`
SearchLoop ==
    /\ pc = "search_loop"
    /\ Cardinality(visited_states) < MaxExpand
    /\ IF frontier = << >>
       THEN /\ solution_node' = None
            /\ pc' = AfterSearch
            /\ UNCHANGED <<nodes, rows, state_rows, current_node, frontier, explored,
                           visited_states>>
       ELSE \E popped \in {heappop(frontier, nodes)} :
            LET tup == state_tuple(nodes[popped.item].state)
            IN  /\ current_node' = popped.item
                /\ IF nodes[popped.item].state = goal_state
                   THEN /\ solution_node' = popped.item
                        /\ pc' = AfterSearch
                        /\ frontier' = popped.heap
                        /\ UNCHANGED <<nodes, rows, state_rows, explored, visited_states>>
                   ELSE IF ~already_visited(tup, visited_states)
                   THEN /\ \E kids \in {get_neighbors(nodes[popped.item], popped.item)} :
                           \E created \in {nodes \o kids} :
                           \E copies \in {neighbor_rows(rows, state_rows[popped.item])} :
                               /\ visited_states' = visited_states \cup {tup}
                               /\ explored' = explored \cup {tup}
                               /\ nodes' = created
                               /\ rows' = copies.rows
                               /\ state_rows' = state_rows \o copies.states
                               /\ frontier' = push_neighbors(popped.heap, created, kids,
                                                             Len(nodes), explored \cup {tup}, 1)
                        /\ UNCHANGED <<solution_node, pc>>
                   ELSE /\ frontier' = popped.heap
                        /\ UNCHANGED <<nodes, rows, state_rows, explored, visited_states,
                                       solution_node, pc>>
    /\ UNCHANGED <<entry, initial_state, goal_state, outcome, path, move_sequence, calls>>

\* main: if solution_node: print_solution(solution_node) else: print("No solution.")
MainReport ==
    /\ pc = "main_report"
    /\ IF solution_node # None
       THEN LET chain == parent_chain(nodes, solution_node)
            IN  /\ path' = reverse(chain)
                /\ move_sequence' = reverse(chain_moves(nodes, chain))
                /\ outcome' = Append(outcome, "solution")
       ELSE /\ outcome' = Append(outcome, "no_solution")
            /\ UNCHANGED <<path, move_sequence>>
    /\ pc' = "done"
    /\ UNCHANGED <<entry, initial_state, goal_state, nodes, rows, state_rows,
                   current_node, frontier, explored, visited_states, solution_node, calls>>

Next == MainCompare \/ MainIsSolvable \/ SearchInit \/ SearchLoop \/ MainReport

Spec == Init /\ [][Next]_vars

(***************************************************************************)
(* WalkSpec: get_neighbors applied again and again, one child followed at  *)
(* each step, giving every chain of at most MaxWalk slides from a start.   *)
(***************************************************************************)
WalkInit ==
    /\ entry = "walk"
    /\ pc = "walk"
    /\ initial_state \in Starts
    /\ goal_state \in {initial_state} \cup FixedGoals
    /\ nodes = <<PuzzleNode(initial_state, goal_state, None, None, 0)>>
    /\ rows = input_rows(initial_state, goal_state)
    /\ state_rows = <<initial_rows>>
    /\ current_node = None
    /\ frontier = << >>
    /\ explored = {}
    /\ visited_states = {}
    /\ solution_node = None
    /\ outcome = << >>
    /\ path = << >>
    /\ move_sequence = << >>
    /\ calls = {}

\* one call of get_neighbors on the last node of the chain, one child kept
Slide ==
    /\ pc = "walk"
    /\ Len(nodes) <= MaxWalk
    /\ \E kids \in {get_neighbors(nodes[Len(nodes)], Len(nodes))} :
       \E copies \in {neighbor_rows(rows, state_rows[Len(nodes)])} :
       \E k \in 1..Len(kids) :
           /\ nodes' = Append(nodes, kids[k])
           /\ rows' = copies.rows
           /\ state_rows' = Append(state_rows, copies.states[k])
    /\ UNCHANGED <<pc, entry, initial_state, goal_state, current_node, frontier, explored,
                   visited_states, solution_node, outcome, path, move_sequence, calls>>

WalkNext == Slide

WalkSpec == WalkInit /\ [][WalkNext]_vars

\* the model stops following a search after MaxExpand expansions
Stalled == pc = "search_loop" /\ Cardinality(visited_states) >= MaxExpand

\* the interpreter runs the single thread until main (or search) returns: weak
\* fairness of every action.  For SearchLoop, WF_vars(SearchLoop) is written out,
\* []<>(~ENABLED <<SearchLoop>>_vars) \/ []<><<SearchLoop>>_vars, with the
\* enabling condition of the loop in place of ENABLED
LoopEnabled == pc = "search_loop" /\ ~Stalled

Fairness ==
    /\ WF_vars(MainCompare)
    /\ WF_vars(MainIsSolvable)
    /\ WF_vars(SearchInit)
    /\ WF_vars(MainReport)
    /\ ([]<>(~LoopEnabled) \/ []<><<SearchLoop>>_vars)

FairSpec == Spec /\ Fairness

(***************************************************************************)
(* Reference notions the claims are stated with.                           *)
(***************************************************************************)
\* breadth-first search over legal slides: the least number of slides from a
\* configuration of `level` (all at distance d from the start) to goal, looking
\* no deeper than limit; None when goal is not found within limit
RECURSIVE bfs(_, _, _, _, _)
bfs(level, seen, goal, d, limit) ==
    IF goal \in level THEN d
    ELSE IF d >= limit \/ level = {} THEN None
    ELSE LET next == (UNION {Slides(c) : c \in level}) \ seen
         IN  bfs(next, seen \cup next, goal, d + 1, limit)

shortest_slides(initial, goal, limit) == bfs({initial}, {initial}, goal, 0, limit)

\* search has just returned (to main, or to its direct caller)
Returned ==
    \/ pc = "main_report"
    \/ entry = "search" /\ pc = "done"

(***************************************************************************)
(* C1: whenever search returns a node, the node's cost is the number of    *)
(* parent links above it, equals the breadth-first shortest number of      *)
(* slides from the initial configuration to the goal, is at least the      *)
(* Manhattan distance of the initial configuration, and is 1 when the goal *)
(* is one slide away.                                                      *)
(***************************************************************************)
C1_Optimal ==
    (Returned /\ solution_node # None) =>
        LET cost == nodes[solution_node].cost
        IN  /\ cost = Len(parent_chain(nodes, solution_node)) - 1
            /\ shortest_slides(initial_state, goal_state, cost) = cost
            /\ cost >= calculate_manhattan_distance(initial_state, goal_state)
            /\ (goal_state \in Slides(initial_state) => cost = 1)

\* a search that returned a path longer than the heuristic promised
C1_Witness ==
    /\ Returned
    /\ solution_node # None
    /\ nodes[solution_node].cost >= 6
    /\ nodes[solution_node].cost > calculate_manhattan_distance(initial_state, goal_state)

(***************************************************************************)
(* C2: a search started on a pair whose goal is reachable (here: found by  *)
(* the breadth-first search within MaxSlides slides) eventually returns a  *)
(* node whose state is the goal; it does not end with None.  The pairs     *)
(* include direct calls of search with an initial configuration that       *)
(* is_solvable rejects.                                                    *)
(***************************************************************************)
FoundGoal ==
    /\ Returned
    /\ solution_node # None
    /\ nodes[solution_node].state = goal_state

C2_Complete ==
    (pc = "search_init" /\ shortest_slides(initial_state, goal_state, MaxSlides) # None)
        ~> FoundGoal

\* a direct call on a configuration with an odd inversion count found a goal
\* several slides away
C2_Witness ==
    /\ FoundGoal
    /\ entry = "search"
    /\ ~is_solvable(initial_state)
    /\ nodes[solution_node].cost >= 5

(***************************************************************************)
(* C3: the while loop of search ends.  Every iteration that does not       *)
(* return either adds a configuration to visited_states (pushing at most   *)
(* four nodes for the one it popped) or leaves visited_states alone and    *)
(* shortens the frontier, so Variant, a natural number because             *)
(* visited_states holds only configurations, decreases in every iteration; *)
(* the loop is left only by returning a node whose state is the goal or by *)
(* returning None on an empty frontier; and when the goal is out of reach  *)
(* (here: is_solvable, which no slide changes, tells it from the initial   *)
(* configuration) no node is ever returned, leaving None.                  *)
(***************************************************************************)
\* the number of configurations: arrangements of 0..8
NumConfigurations == 9 * 8 * 7 * 6 * 5 * 4 * 3 * 2

IsConfigurationTuple(t) ==
    /\ Len(t) = 3
    /\ \A i \in 1..3 : Len(t[i]) = 3
    /\ {t[i][j] : i \in 1..3, j \in 1..3} = 0..8

Variant == 4 * (NumConfigurations - Cardinality(visited_states)) + Len(frontier)

C3_IterationStep ==
    pc = "search_loop" =>
        /\ \A t \in visited_states' : IsConfigurationTuple(t)
        /\ pc' = "search_loop" => Variant' < Variant /\ Variant' >= 0
        /\ pc' # "search_loop" =>
              \/ solution_node' # None /\ nodes[solution_node'].state = goal_state
              \/ solution_node' = None /\ frontier = << >>
        /\ is_solvable(initial_state) # is_solvable(goal_state) => solution_node' = None

C4_PrecheckGuaranteesGoal ==
    (entry = "main" /\ pc = "search_loop" /\ solution_node = None) =>
        \E k \in 1..Len(frontier) :
            is_solvable(nodes[frontier[k]].state) = is_solvable(goal_state)

(***************************************************************************)
(* C5, as claimed: when main reports the puzzle as not solvable, the goal  *)
(* cannot be reached from the initial configuration by legal slides.       *)
(***************************************************************************)
C5_UnsolvableSound ==
    (pc = "done" /\ outcome = <<"not_solvable">>) =>
        shortest_slides(initial_state, goal_state, MaxSlides) = None

(***************************************************************************)
(* C6: a legal slide, as get_neighbors makes it, never changes             *)
(* is_solvable, and every configuration reached from the canonical solved  *)
(* grid by legal slides has is_solvable true.                              *)
(***************************************************************************)
LastNode == nodes[Len(nodes)]

C6_SolvableInvariant ==
    pc = "walk" =>
        /\ LastNode.parent # None =>
               is_solvable(LastNode.state) = is_solvable(nodes[LastNode.parent].state)
        /\ initial_state = Canonical => is_solvable(LastNode.state)

\* MaxWalk slides from a configuration with an odd inversion count, the blank
\* having changed row
C6_Witness ==
    /\ pc = "walk"
    /\ ~is_solvable(initial_state)
    /\ LastNode.cost >= 4
    /\ find_position(LastNode.state, 0)[1] # find_position(initial_state, 0)[1]

(***************************************************************************)
(* C7: the path of a returned node starts at the initial configuration and *)
(* ends at the goal, and sliding the recorded tiles one after the other    *)
(* into the blank, each orthogonally adjacent to it, reproduces the        *)
(* recorded configurations.                                                *)
(***************************************************************************)
\* `tile` is a tile orthogonally adjacent to the blank of `state`, and sliding
\* it into the blank gives `next`
move_leads_to(state, tile, next) ==
    /\ tile \in 1..8
    /\ LET zero_pos == find_position(state, 0)
           tile_pos == find_position(state, tile)
       IN  /\ Abs(zero_pos[1] - tile_pos[1]) + Abs(zero_pos[2] - tile_pos[2]) = 1
           /\ swap_blank(state, zero_pos, tile_pos) = next

C7_PathRoundTrip ==
    (Returned /\ solution_node # None) =>
        LET chain == reverse(parent_chain(nodes, solution_node))
            moves == reverse(chain_moves(nodes, parent_chain(nodes, solution_node)))
        IN  /\ nodes[chain[1]].state = initial_state
            /\ nodes[chain[Len(chain)]].state = goal_state
            /\ Len(moves) = Len(chain) - 1
            /\ \A i \in 1..Len(moves) :
                   move_leads_to(nodes[chain[i]].state, moves[i], nodes[chain[i + 1]].state)
            /\ pc = "done" /\ entry = "main" => path = chain /\ move_sequence = moves

\* print_solution has printed a path of at least five moves
C7_Witness ==
    /\ pc = "done"
    /\ outcome = <<"solution">>
    /\ Len(move_sequence) >= 5
    /\ Len(path) = Len(move_sequence) + 1

(***************************************************************************)
(* C8: main ends with exactly one of its four messages; when initial and   *)
(* goal are equal the message is "already solved" and neither is_solvable  *)
(* nor search has been called, whatever the inversion count; and search is *)
(* called only when initial differs from goal and is_solvable(initial).    *)
(***************************************************************************)
Messages == {"already_solved", "not_solvable", "solution", "no_solution"}

C8_GateOrder ==
    entry = "main" =>
        /\ pc = "done" => Len(outcome) = 1 /\ outcome[1] \in Messages
        /\ pc # "done" => outcome = << >>
        /\ initial_state = goal_state =>
               /\ calls = {}
               /\ nodes = << >>
               /\ pc = "done" => outcome = <<"already_solved">>
        /\ "search" \in calls =>
               /\ initial_state # goal_state
               /\ "is_solvable" \in calls
               /\ is_solvable(initial_state)
        /\ outcome = <<"not_solvable">> => "search" \notin calls /\ nodes = << >>

\* already solved, reported for a configuration with an odd inversion count
C8_Witness ==
    /\ entry = "main"
    /\ pc = "done"
    /\ initial_state = goal_state
    /\ ~is_solvable(initial_state)
    /\ outcome = <<"already_solved">>

(***************************************************************************)
(* C9: the Manhattan distance of a configuration to itself is 0.           *)
(***************************************************************************)
C9_SelfDistanceZero ==
    pc = "walk" => calculate_manhattan_distance(LastNode.state, LastNode.state) = 0

\* a configuration several slides from its start, the blank off the corner
C9_Witness ==
    /\ pc = "walk"
    /\ LastNode.cost >= 4
    /\ LastNode.state # initial_state
    /\ find_position(LastNode.state, 0) # <<2, 2>>

(***************************************************************************)
(* C10: the Manhattan distance over the eight tiles changes by at most one *)
(* under a legal slide (so h(c) <= 1 + h(c') both ways), and it never      *)
(* exceeds the breadth-first number of slides to a goal that is reachable. *)
(***************************************************************************)
C10_ConsistentAdmissible ==
    pc = "walk" =>
        /\ LastNode.parent # None =>
               LET h_child == calculate_manhattan_distance(LastNode.state, goal_state)
                   h_parent == calculate_manhattan_distance(nodes[LastNode.parent].state,
                                                            goal_state)
               IN  h_parent <= 1 + h_child /\ h_child <= 1 + h_parent
        /\ goal_state = initial_state =>
               calculate_manhattan_distance(LastNode.state, goal_state)
                   <= shortest_slides(LastNode.state, goal_state, LastNode.cost)

\* a configuration whose distance to the goal the heuristic underestimates
C10_Witness ==
    /\ pc = "walk"
    /\ goal_state = initial_state
    /\ LastNode.cost = 6
    /\ shortest_slides(LastNode.state, goal_state, LastNode.cost) = 6
    /\ calculate_manhattan_distance(LastNode.state, goal_state) < 6

(***************************************************************************)
(* C11: get_neighbors gives exactly one child for each in-bounds cell      *)
(* orthogonally adjacent to the blank (two for a corner, three for an      *)
(* edge, four for the centre) and no other child; a child's configuration  *)
(* is its parent's with the blank and the adjacent tile exchanged and      *)
(* every other cell equal, its cost is the parent's plus one, its parent   *)
(* is the expanded node, its goal is the parent's goal, and its action is  *)
(* the tile, one of 1..8, now in the cell the blank left.                  *)
(***************************************************************************)
\* the cells of the board orthogonally adjacent to pos
adjacent_cells(pos) ==
    {c \in (0..2) \X (0..2) : Abs(c[1] - pos[1]) + Abs(c[2] - pos[2]) = 1}

C11_NeighborsExact ==
    pc = "walk" =>
        LET self == LastNode
            zero_pos == find_position(self.state, 0)
            cells == adjacent_cells(zero_pos)
            kids == get_neighbors(self, Len(nodes))
        IN  /\ Len(kids) = Cardinality(cells)
            /\ Len(kids) = (IF zero_pos = <<1, 1>> THEN 4
                            ELSE IF zero_pos[1] # 1 /\ zero_pos[2] # 1 THEN 2
                            ELSE 3)
            /\ \A c \in cells :
                   Cardinality({k \in 1..Len(kids) : kids[k].state[c[1]][c[2]] = 0}) = 1
            /\ \A k \in 1..Len(kids) :
                   LET new_pos == find_position(kids[k].state, 0)
                   IN  /\ new_pos \in cells
                       /\ kids[k].state[zero_pos[1]][zero_pos[2]]
                              = self.state[new_pos[1]][new_pos[2]]
                       /\ \A i, j \in 0..2 :
                              <<i, j>> \notin {zero_pos, new_pos} =>
                                  kids[k].state[i][j] = self.state[i][j]
                       /\ kids[k].cost = self.cost + 1
                       /\ kids[k].parent = Len(nodes)
                       /\ kids[k].goal_state = self.goal_state
                       /\ kids[k].action \in 1..8
                       /\ kids[k].action = kids[k].state[zero_pos[1]][zero_pos[2]]

\* a node several slides down a chain, its blank in the centre, with four children
C11_Witness ==
    /\ pc = "walk"
    /\ LastNode.cost >= 3
    /\ find_position(LastNode.state, 0) = <<1, 1>>
    /\ find_position(initial_state, 0) # <<1, 1>>
    /\ Len(get_neighbors(LastNode, Len(nodes))) = 4

(***************************************************************************)
(* C12: expansion never changes a configuration that exists already.       *)
(* Read through the row objects as they are now, the caller's initial and  *)
(* goal configurations have the values they were given and every node ever *)
(* created (the expanded node, its ancestors, its siblings, the frontier   *)
(* entries) has the state it was constructed with; no row object of a      *)
(* child's state belongs to another node's state or to the caller's goal,  *)
(* so a store into one child's grid reaches no other grid.                 *)
(***************************************************************************)
C12_NoMutation ==
    /\ grid_of(rows, initial_rows) = initial_state
    /\ grid_of(rows, goal_rows) = goal_state
    /\ Len(state_rows) = Len(nodes)
    /\ \A n \in 1..Len(nodes) : grid_of(rows, state_rows[n]) = nodes[n].state
    /\ Cardinality({state_rows[n][i] : n \in 1..Len(nodes), i \in 1..3}) = 3 * Len(nodes)
    /\ \A n \in 1..Len(nodes) : \A i \in 1..3 :
           /\ state_rows[n][i] \notin {goal_rows[1], goal_rows[2], goal_rows[3]}
           /\ n > 1 => state_rows[n][i] \notin {initial_rows[1], initial_rows[2], initial_rows[3]}

\* a search in progress after several expansions, children of different parents
\* waiting in the frontier together with the just expanded node's children
C12_Witness ==
    /\ pc = "search_loop"
    /\ Cardinality(visited_states) >= 5
    /\ Len(frontier) >= 6
    /\ \E a, b \in 1..Len(frontier) : nodes[frontier[a]].parent # nodes[frontier[b]].parent
    /\ nodes[Len(nodes)].parent = current_node

(***************************************************************************)
(* C13: every node a search has created has a state that is an arrangement *)
(* of 0..8, a heuristic equal to the Manhattan distance of its state to    *)
(* the goal, total_cost = cost + heuristic, and a cost equal to the number *)
(* of parent links from it to the root; parents are created before their   *)
(* children, so the links form a tree rooted at the first node, the only   *)
(* one with parent None and action None; and once main has printed a       *)
(* solution the number of moves reported is the returned node's cost and   *)
(* the length of the path minus one.                                       *)
(***************************************************************************)
C13_NodeInvariant ==
    /\ \A n \in 1..Len(nodes) :
           /\ IsConfiguration(nodes[n].state)
           /\ nodes[n].heuristic = calculate_manhattan_distance(nodes[n].state, goal_state)
           /\ nodes[n].total_cost = nodes[n].cost + nodes[n].heuristic
           /\ nodes[n].cost = Len(parent_chain(nodes, n)) - 1
           /\ parent_chain(nodes, n)[nodes[n].cost + 1] = 1
           /\ n = 1 <=> nodes[n].parent = None
           /\ n = 1 <=> nodes[n].action = None
           /\ n > 1 => nodes[n].parent \in 1..(n - 1)
    /\ nodes # << >> => nodes[1].state = initial_state /\ nodes[1].cost = 0
    /\ (pc = "done" /\ outcome = <<"solution">>) =>
           /\ Len(move_sequence) = nodes[solution_node].cost
           /\ Len(move_sequence) = Len(path) - 1

\* main has printed a solution of several moves out of a tree of many nodes
C13_Witness ==
    /\ pc = "done"
    /\ outcome = <<"solution">>
    /\ nodes[solution_node].cost >= 6
    /\ nodes[solution_node].heuristic = 0
    /\ Len(nodes) >= 20
    /\ \E n \in 1..Len(nodes) : nodes[n].heuristic > nodes[1].heuristic

(***************************************************************************)
(* C14: no configuration is expanded twice.  The nodes get_neighbors was   *)
(* called on are the parents of the arena; they hold pairwise different    *)
(* configurations, one for each member of visited_states, each reached     *)
(* from the initial configuration by the legal slides of its parent chain  *)
(* (so there are no more expansions than reachable configurations); and an *)
(* iteration whose popped node holds a configuration already in            *)
(* visited_states creates no node and only shortens the frontier by the    *)
(* node popped.                                                            *)
(***************************************************************************)
\* the nodes get_neighbors has been called on
expanded_nodes(ns) == {ns[n].parent : n \in 2..Len(ns)}

C14_IterationStep ==
    (pc = "search_loop" /\ current_node' # current_node) =>
        LET tup == state_tuple(nodes[current_node'].state)
        IN  /\ tup \in visited_states =>
                   /\ nodes' = nodes
                   /\ visited_states' = visited_states
                   /\ Len(frontier') = Len(frontier) - 1
            /\ nodes' # nodes =>
                   /\ tup \notin visited_states
                   /\ expanded_nodes(nodes') = expanded_nodes(nodes) \cup {current_node'}
            /\ \A p, q \in expanded_nodes(nodes') :
                   p # q => nodes'[p].state # nodes'[q].state
            /\ visited_states' = {state_tuple(nodes'[p].state) : p \in expanded_nodes(nodes')}
            /\ Cardinality(expanded_nodes(nodes')) = Cardinality(visited_states')
            /\ \A p \in expanded_nodes(nodes') :
                   IF p = 1 THEN nodes'[p].state = initial_state
                   ELSE nodes'[p].state \in Slides(nodes'[nodes'[p].parent].state)

C14_NoReExpansion == [][C14_IterationStep]_vars

\* the node just popped holds a configuration expanded before: it was discarded
C14_Witness ==
    /\ pc = "search_loop"
    /\ current_node # None
    /\ current_node \notin expanded_nodes(nodes)
    /\ state_tuple(nodes[current_node].state) \in visited_states
    /\ \E p \in expanded_nodes(nodes) : nodes[p].state = nodes[current_node].state

(***************************************************************************)
(* C15: lazy duplicate elimination.  In an iteration that expands the      *)
(* popped node, the configuration is added to explored and each child is   *)
(* in the new frontier exactly when its configuration is not in explored   *)
(* by then; the rest of the frontier is the old one without the popped     *)
(* node, and no node is in the frontier twice.  An iteration that pops a   *)
(* node whose configuration was visited before pushes nothing and leaves   *)
(* visited_states and explored as they were.  After every iteration        *)
(* explored and visited_states are equal.                                  *)
(***************************************************************************)
\* the nodes in a frontier list
members(heap) == {heap[i] : i \in 1..Len(heap)}

C15_IterationStep ==
    (pc = "search_loop" /\ current_node' # current_node) =>
        LET tup == state_tuple(nodes[current_node'].state)
            children == (Len(nodes) + 1)..Len(nodes')
        IN  /\ nodes' # nodes =>
                   /\ explored' = explored \cup {tup}
                   /\ \A n \in children :
                          n \in members(frontier')
                              <=> state_tuple(nodes'[n].state) \notin explored'
                   /\ members(frontier') \ children = members(frontier) \ {current_node'}
            /\ (tup \in visited_states /\ pc' = "search_loop") =>
                   /\ members(frontier') = members(frontier) \ {current_node'}
                   /\ nodes' = nodes
                   /\ visited_states' = visited_states
                   /\ explored' = explored
            /\ Cardinality(members(frontier')) = Len(frontier')
            /\ explored' = visited_states'

C15_LazyDuplicates == [][C15_IterationStep]_vars

\* the frontier holds one not yet expanded configuration in two nodes, and the
\* last expansion left a child out because its configuration was explored
C15_Witness ==
    /\ pc = "search_loop"
    /\ \E a, b \in members(frontier) :
           /\ a # b
           /\ nodes[a].state = nodes[b].state
           /\ state_tuple(nodes[a].state) \notin visited_states
    /\ \E n \in 2..Len(nodes) :
           /\ nodes[n].parent = current_node
           /\ n \notin members(frontier)
           /\ state_tuple(nodes[n].state) \in explored

(***************************************************************************)
(* C16: the node heappop removes has a total_cost no greater than that of  *)
(* any node left in the frontier, and the frontier list keeps the heap     *)
(* property (no item less than its parent position's item, by __lt__)      *)
(* from the one-element list on; search returns a node only in the         *)
(* iteration that pops it, with its state equal to the goal; an iteration  *)
(* that creates or pushes a node holding the goal returns nothing.         *)
(***************************************************************************)
\* the heap property of a list, positions counted from 0 as heapq does
heap_ordered(heap, ns) ==
    \A pos \in 1..(Len(heap) - 1) :
        ~lt(ns[heap[pos + 1]], ns[heap[((pos - 1) \div 2) + 1]])

C16_IterationStep ==
    /\ (pc = "search_loop" /\ current_node' # current_node) =>
           /\ current_node' \in members(frontier)
           /\ current_node' \notin members(frontier')
           /\ \A n \in members(frontier) :
                  nodes[current_node'].total_cost <= nodes[n].total_cost
    /\ pc \in {"search_init", "search_loop"} => heap_ordered(frontier', nodes')
    /\ solution_node' # solution_node =>
           /\ pc = "search_loop"
           /\ solution_node' = current_node'
           /\ current_node' # current_node
           /\ nodes[solution_node'].state = goal_state
    /\ (pc = "search_loop" /\ nodes' # nodes) =>
           /\ solution_node' = None
           /\ pc' = "search_loop"
    /\ (pc = "search_loop" /\ nodes[current_node'].state # goal_state) =>
           solution_node' = None

C16_PopOrder == [][C16_IterationStep]_vars

\* a node holding the goal waits in the frontier, behind the root of the heap,
\* while the search goes on; the frontier holds different total_costs
C16_Witness ==
    /\ pc = "search_loop"
    /\ solution_node = None
    /\ Cardinality(visited_states) >= 3
    /\ \E n \in members(frontier) : nodes[n].state = goal_state /\ frontier[1] # n
    /\ \E a, b \in members(frontier) : nodes[a].total_cost < nodes[b].total_cost

(***************************************************************************)
(* C17, as claimed: ties are broken by insertion order.  Nodes are pushed  *)
(* in the order they are created, so of two frontier nodes the one with    *)
(* the smaller reference was pushed earlier; the claim is that the popped  *)
(* node is the earliest pushed of the frontier nodes with its total_cost.  *)
(***************************************************************************)
C17_StableStep ==
    (pc = "search_loop" /\ current_node' # current_node) =>
        \A n \in members(frontier) :
            nodes[n].total_cost = nodes[current_node'].total_cost => current_node' <= n

C17_StableTies == [][C17_StableStep]_vars

(***************************************************************************)
(* C17, amended: ties are broken by position in the heap list.  The node   *)
(* popped is the head of the list, and a push never takes the head from a  *)
(* node of equal total_cost: when the head after an iteration's pushes is  *)
(* not the head heappop left, it is a child just pushed whose total_cost   *)
(* is strictly smaller.  (heappop's re-siting of the last item is what     *)
(* lets a later pushed node overtake an equal one.)                        *)
(***************************************************************************)
C17_HeadStep ==
    (pc = "search_loop" /\ current_node' # current_node) =>
        /\ current_node' = frontier[1]
        /\ \A left \in {heappop(frontier, nodes).heap} :
               (left # << >> /\ frontier' # << >> /\ frontier'[1] # left[1]) =>
                   /\ frontier'[1] > Len(nodes)
                   /\ nodes'[frontier'[1]].total_cost < nodes[left[1]].total_cost

C17_TiesByHeapPosition == [][C17_HeadStep]_vars

\* the last expansion pushed a child with the total_cost of the head heappop
\* had left, and that older node is still the head
C17_Witness ==
    /\ pc = "search_loop"
    /\ current_node # None
    /\ frontier # << >>
    /\ nodes[frontier[1]].parent # current_node
    /\ \E n \in members(frontier) :
           /\ nodes[n].parent = current_node
           /\ nodes[n].total_cost = nodes[frontier[1]].total_cost

(***************************************************************************)
(* C18: priorities are monotone.  Every child an expansion creates has a   *)
(* total_cost at least its parent's, and each node popped has a total_cost *)
(* at least that of the node popped before it.                             *)
(***************************************************************************)
C18_IterationStep ==
    (pc = "search_loop" /\ current_node' # current_node) =>
        /\ \A n \in (Len(nodes) + 1)..Len(nodes') :
               /\ nodes'[n].parent = current_node'
               /\ nodes'[n].total_cost >= nodes'[current_node'].total_cost
        /\ current_node # None =>
               nodes[current_node'].total_cost >= nodes[current_node].total_cost

C18_MonotonePriorities == [][C18_IterationStep]_vars

\* the total_cost popped has risen above the root's, after a pop that discarded
\* or expanded a node with children dearer than itself
C18_Witness ==
    /\ pc = "search_loop"
    /\ current_node # None
    /\ Cardinality(visited_states) >= 5
    /\ nodes[current_node].total_cost > nodes[1].total_cost
    /\ \E n \in 2..Len(nodes) :
           /\ nodes[n].parent = current_node
           /\ nodes[n].total_cost = nodes[current_node].total_cost + 2
    /\ \E n \in 2..Len(nodes) :
           /\ nodes[n].parent = current_node
           /\ nodes[n].total_cost = nodes[current_node].total_cost

(***************************************************************************)
(* C19: the first expansion of a configuration is already optimal.  When   *)
(* an iteration adds a configuration to visited_states, the cost of the    *)
(* node it expands is the breadth-first shortest number of slides from the *)
(* initial configuration to that configuration; and when an iteration      *)
(* discards a node because its configuration was visited, the node that    *)
(* was expanded for that configuration has a cost no greater.              *)
(***************************************************************************)
C19_IterationStep ==
    (pc = "search_loop" /\ current_node' # current_node) =>
        LET popped_node == nodes[current_node']
        IN  /\ visited_states' # visited_states =>
                   /\ visited_states' = visited_states \cup {state_tuple(popped_node.state)}
                   /\ shortest_slides(initial_state, popped_node.state, popped_node.cost)
                          = popped_node.cost
            /\ state_tuple(popped_node.state) \in visited_states =>
                   \E p \in expanded_nodes(nodes) :
                       /\ nodes[p].state = popped_node.state
                       /\ nodes[p].cost <= popped_node.cost

C19_FirstExpansionOptimal == [][C19_IterationStep]_vars

\* a node was just discarded: its configuration, several slides from the start,
\* had been expanded in an earlier node reached by another path
C19_Witness ==
    /\ pc = "search_loop"
    /\ current_node # None
    /\ current_node \notin expanded_nodes(nodes)
    /\ \E p \in expanded_nodes(nodes) :
           /\ nodes[p].state = nodes[current_node].state
           /\ nodes[p].parent # nodes[current_node].parent
           /\ nodes[p].cost >= 2
           /\ shortest_slides(initial_state, nodes[p].state, nodes[p].cost) = nodes[p].cost

====
